---- MODULE Spec2Model ----
(***************************************************************************)
(* protonvpn-rs daemon: the socket wire protocol (src/protocol.rs), the    *)
(* request handlers of the daemon (src/daemon.rs), the OpenVPN client      *)
(* supervisor (src/client/openvpn.rs) and the iptables killswitch          *)
(* (src/killswitch.rs).                                                    *)
(*                                                                         *)
(* Text is a sequence of one-character strings, so that splitting on ':'   *)
(* and formatting are computed on characters as the Rust code does.        *)
(***************************************************************************)
EXTENDS Integers, Sequences, FiniteSets, TLC

VARIABLES
    \* ---- wire protocol (one message through the codec) ----
    input,      \* what a peer is about to put on the socket
    wire,       \* the bytes on the socket, NoText before anything is written
    decoded,    \* what the reading side made of the bytes, NoResult before
    \* ---- daemon (State of src/daemon.rs and the main thread) ----
    pc,                 \* where the main thread is: "accept", "pidwait", or dead
    active_server,      \* State.active_server: None or Some(ActiveServer)
    killswitch_enabled, \* State.killswitch_enabled
    pending,            \* the Connect blocked in the pid-file wait, or None
    handler,            \* the signal-handler thread: where it is, what it did
    \* ---- operating system ----
    procs,              \* running tunnel processes: pid -> "starting" | "running"
    pidfile,            \* /etc/protonvpn-rs/pid: NoFile or the text in the file
    backup_file,        \* /etc/protonvpn-rs/iptables.backup: NoFile or a ruleset
    iptables,           \* the ruleset in force in the kernel
    \* ---- observation ----
    last                \* the connection taken last: request, result, effects

codecVars == <<input, wire, decoded>>
daemonVars == <<pc, active_server, killswitch_enabled, pending>>
osVars == <<procs, pidfile, backup_file, iptables>>
obsVars == <<last>>
sigVars == <<handler>>
vars == <<codecVars, daemonVars, osVars, obsVars, sigVars>>

----------------------------------------------------------------------------
(* Bounds *)

\* longest request message, counted in ':'-separated fields
MaxReqFields == 4
\* longest response message, counted in ':'-separated fields
MaxRespFields == 5
\* largest process id of the model
MaxPid == 2
\* latest rule of a killswitch rule list whose `iptables` run may fail
MaxFailAt == 5
\* most physical servers (entry addresses) of one logical server
MaxEntryIps == 3

----------------------------------------------------------------------------
(* Text *)

\* no bytes written yet: a one-element sequence no message equals
NoText == <<"no-text">>
NoResult == [kind |-> "None"]

t_status       == <<"s","t","a","t","u","s">>
t_disconnect   == <<"d","i","s","c","o","n","n","e","c","t">>
t_connect      == <<"c","o","n","n","e","c","t">>
t_killswitch   == <<"k","i","l","l","s","w","i","t","c","h">>
t_true         == <<"t","r","u","e">>
t_false        == <<"f","a","l","s","e">>
t_udp          == <<"u","d","p">>
t_tcp          == <<"t","c","p">>
t_connected    == <<"c","o","n","n","e","c","t","e","d">>
t_disconnected == <<"d","i","s","c","o","n","n","e","c","t","e","d">>
t_UDP          == <<"U","D","P">>
t_empty        == << >>
t_s1           == <<"s","1">>
t_s2           == <<"s","2">>
t_server1      == <<"s","e","r","v","e","r","1">>

Digits == <<"0","1","2","3","4","5","6","7","8","9">>

IsDigit(c) == \E i \in 1..10 : Digits[i] = c

DigitValue(c) == (CHOOSE i \in 1..10 : Digits[i] = c) - 1

\* char::is_whitespace on the characters of the model
IsWhitespace(c) == c \in {" ", "\n", "\t"}

\* u8::to_ascii_lowercase on the letters of the model
to_ascii_lowercase(c) ==
    CASE c = "U" -> "u"
      [] c = "D" -> "d"
      [] c = "P" -> "p"
      [] c = "T" -> "t"
      [] c = "C" -> "c"
      [] OTHER   -> c

eq_ignore_ascii_case(a, b) ==
    /\ Len(a) = Len(b)
    /\ \A i \in 1..Len(a) : to_ascii_lowercase(a[i]) = to_ascii_lowercase(b[i])

\* str::trim
RECURSIVE trim_start(_)
trim_start(s) ==
    IF s # << >> /\ IsWhitespace(Head(s)) THEN trim_start(Tail(s)) ELSE s

RECURSIVE trim_end(_)
trim_end(s) ==
    IF s # << >> /\ IsWhitespace(s[Len(s)])
    THEN trim_end(SubSeq(s, 1, Len(s) - 1))
    ELSE s

trim(s) == trim_end(trim_start(s))

\* str::split(':'): the fields between the delimiters, always at least one
RECURSIVE split_acc(_, _, _, _)
split_acc(msg, i, cur, acc) ==
    IF i > Len(msg) THEN Append(acc, cur)
    ELSE IF msg[i] = ":" THEN split_acc(msg, i + 1, << >>, Append(acc, cur))
    ELSE split_acc(msg, i + 1, Append(cur, msg[i]), acc)

split(msg) == split_acc(msg, 1, << >>, << >>)

\* fields joined by ':' (what format!("a:{}:{}") writes between its arguments)
RECURSIVE join(_)
join(fields) ==
    IF Len(fields) = 0 THEN << >>
    ELSE IF Len(fields) = 1 THEN fields[1]
    ELSE fields[1] \o <<":">> \o join(Tail(fields))

HasColon(s) == \E i \in 1..Len(s) : s[i] = ":"

----------------------------------------------------------------------------
(* Results: Ok(value), Err(error) and a panic of the calling thread *)

Ok(v)    == [kind |-> "Ok", val |-> v]
Err(e)   == [kind |-> "Err", err |-> e]
Panic(m) == [kind |-> "Panic", msg |-> m]

IsOk(r)    == r.kind = "Ok"
IsErr(r)   == r.kind = "Err"
IsPanic(r) == r.kind = "Panic"

----------------------------------------------------------------------------
(* Protocol and Pid *)

Protocols == {"Udp", "Tcp"}

\* impl Display for Protocol
Protocol_fmt(p) == IF p = "Udp" THEN t_udp ELSE t_tcp

\* derived clap::ValueEnum::from_str(input, ignore_case): the variant whose
\* name ("udp", "tcp") matches, else Err
Protocol_from_str(s, ignore_case) ==
    LET matches(name) == IF ignore_case THEN eq_ignore_ascii_case(name, s)
                         ELSE name = s
    IN  IF matches(t_udp) THEN Ok("Udp")
        ELSE IF matches(t_tcp) THEN Ok("Tcp")
        ELSE Err("invalid variant")

\* Result::expect
expect(r, msg) == IF IsOk(r) THEN r ELSE Panic(msg)

\* u32 Display: decimal digits, no sign, no leading zeros
RECURSIVE u32_fmt(_)
u32_fmt(n) ==
    IF n < 10 THEN <<Digits[n + 1]>>
    ELSE u32_fmt(n \div 10) \o <<Digits[(n % 10) + 1]>>

\* str::parse::<u32>: an optional '+', then one or more digits, in range
RECURSIVE digits_value(_, _)
digits_value(s, acc) ==
    IF s = << >> THEN acc
    ELSE digits_value(Tail(s), acc * 10 + DigitValue(Head(s)))

\* u32::MAX in decimal; the range check compares digits, not numbers
t_u32_max == <<"4","2","9","4","9","6","7","2","9","5">>

RECURSIVE strip_zeros(_)
strip_zeros(s) ==
    IF Len(s) > 1 /\ Head(s) = "0" THEN strip_zeros(Tail(s)) ELSE s

RECURSIVE digits_greater(_, _)
digits_greater(a, b) ==
    IF a = << >> THEN FALSE
    ELSE IF Head(a) # Head(b) THEN DigitValue(Head(a)) > DigitValue(Head(b))
    ELSE digits_greater(Tail(a), Tail(b))

exceeds_u32(body) ==
    LET d == strip_zeros(body)
    IN  \/ Len(d) > Len(t_u32_max)
        \/ Len(d) = Len(t_u32_max) /\ digits_greater(d, t_u32_max)

u32_parse(s) ==
    LET body == IF s # << >> /\ Head(s) = "+" THEN Tail(s) ELSE s
    IN  IF body = << >> THEN Err("empty")
        ELSE IF \E i \in 1..Len(body) : ~IsDigit(body[i]) THEN Err("invalid digit")
        ELSE IF exceeds_u32(body) THEN Err("overflow")
        ELSE Ok(digits_value(body, 0))

\* impl TryFrom<String> for Pid
Pid_try_from(value) == u32_parse(trim(value))

\* impl Display for Pid
Pid_fmt(pid) == u32_fmt(pid)

----------------------------------------------------------------------------
(* Request and Response *)

Status                == [type |-> "Status"]
Disconnect            == [type |-> "Disconnect"]
Connect(id, protocol) == [type |-> "Connect", id |-> id, protocol |-> protocol]
Killswitch(enable)    == [type |-> "Killswitch", enable |-> enable]

Disconnected == [status |-> "Disconnected"]
Connected(name, pid, protocol) ==
    [status |-> "Connected", name |-> name, pid |-> pid, protocol |-> protocol]
ResponseStatus(status) == [type |-> "Status", status |-> status]

split_message(msg) ==
    LET parts == split(msg)
    IN  [command |-> parts[1], args |-> Tail(parts)]

\* variant: reads the first argument of `connect` as the protocol
Request_deserialize_SwappedArgs(data) ==
    LET m    == split_message(data)
        args == m.args
    IN  IF m.command = t_status THEN Ok(Status)
        ELSE IF m.command = t_disconnect THEN Ok(Disconnect)
        ELSE IF m.command = t_connect THEN
            IF Len(args) = 2
            THEN LET p == expect(Protocol_from_str(args[1], TRUE), "valid protocol")
                 IN  IF IsOk(p) THEN Ok(Connect(args[2], p.val)) ELSE p
            ELSE Err("incorrect arguments")
        ELSE IF m.command = t_killswitch THEN
            IF args = <<t_true>> THEN Ok(Killswitch(TRUE))
            ELSE IF args = <<t_false>> THEN Ok(Killswitch(FALSE))
            ELSE Err("incorrect arguments")
        ELSE Err("no command matched")

\* variant: `connect` with the protocol left out falls back to the default
Request_deserialize_LenientArity(data) ==
    LET m    == split_message(data)
        args == m.args
    IN  IF m.command = t_status THEN Ok(Status)
        ELSE IF m.command = t_disconnect THEN Ok(Disconnect)
        ELSE IF m.command = t_connect THEN
            IF Len(args) = 2
            THEN LET p == expect(Protocol_from_str(args[2], TRUE), "valid protocol")
                 IN  IF IsOk(p) THEN Ok(Connect(args[1], p.val)) ELSE p
            ELSE IF Len(args) = 1 THEN Ok(Connect(args[1], "Udp"))
            ELSE Err("incorrect arguments")
        ELSE IF m.command = t_killswitch THEN
            IF args = <<t_true>> THEN Ok(Killswitch(TRUE))
            ELSE IF args = <<t_false>> THEN Ok(Killswitch(FALSE))
            ELSE Err("incorrect arguments")
        ELSE Err("no command matched")

Request_deserialize(data) ==
    LET m    == split_message(data)
        args == m.args
    IN  IF m.command = t_status THEN Ok(Status)
        ELSE IF m.command = t_disconnect THEN Ok(Disconnect)
        ELSE IF m.command = t_connect THEN
            IF Len(args) = 2
            THEN LET p == expect(Protocol_from_str(args[2], TRUE), "valid protocol")
                 IN  IF IsOk(p) THEN Ok(Connect(args[1], p.val)) ELSE p
            ELSE Err("incorrect arguments")
        ELSE IF m.command = t_killswitch THEN
            IF args = <<t_true>> THEN Ok(Killswitch(TRUE))
            ELSE IF args = <<t_false>> THEN Ok(Killswitch(FALSE))
            ELSE Err("incorrect arguments")
        ELSE Err("no command matched")

\* variant: writes the protocol before the server id
Request_serialize_ProtocolFirst(r) ==
    IF r.type = "Status" THEN t_status
    ELSE IF r.type = "Connect"
         THEN join(<<t_connect, Protocol_fmt(r.protocol), r.id>>)
    ELSE IF r.type = "Disconnect" THEN t_disconnect
    ELSE join(<<t_killswitch, IF r.enable THEN t_true ELSE t_false>>)

Request_serialize(r) ==
    IF r.type = "Status" THEN t_status
    ELSE IF r.type = "Connect"
         THEN join(<<t_connect, r.id, Protocol_fmt(r.protocol)>>)
    ELSE IF r.type = "Disconnect" THEN t_disconnect
    ELSE join(<<t_killswitch, IF r.enable THEN t_true ELSE t_false>>)

Response_deserialize(data) ==
    LET m    == split_message(data)
        args == m.args
    IN  IF m.command = t_status THEN
            IF args = <<t_disconnected>> THEN Ok(ResponseStatus(Disconnected))
            ELSE IF Len(args) = 4 /\ args[1] = t_connected THEN
                LET pid == Pid_try_from(args[2])
                IN  IF ~IsOk(pid) THEN Err("invalid pid")
                    ELSE LET p == expect(Protocol_from_str(args[4], TRUE),
                                         "valid protocol")
                         IN  IF IsOk(p)
                             THEN Ok(ResponseStatus(Connected(args[3], pid.val, p.val)))
                             ELSE p
            ELSE Err("no such status or invalid arguments")
        ELSE Err("unknown command")

\* variant: writes the name before the pid
Response_serialize_NameFirst(r) ==
    IF r.status.status = "Connected"
    THEN join(<<t_status, t_connected, r.status.name, Pid_fmt(r.status.pid),
                Protocol_fmt(r.status.protocol)>>)
    ELSE join(<<t_status, t_disconnected>>)

Response_serialize(r) ==
    IF r.status.status = "Connected"
    THEN join(<<t_status, t_connected, Pid_fmt(r.status.pid), r.status.name,
                Protocol_fmt(r.status.protocol)>>)
    ELSE join(<<t_status, t_disconnected>>)

----------------------------------------------------------------------------
(* One message through the codec: a peer writes bytes, the other side     *)
(* decodes them.  The inputs are every Request and Response value over a   *)
(* small vocabulary, and every byte string made of up to MaxReqFields      *)
(* (MaxRespFields) fields of that vocabulary.                              *)

SeqsUpTo(S, n) == UNION {[1..k -> S] : k \in 1..n}

\* texts that hold no ':' (a field of a message)
FieldTexts == {t_server1, t_s1, t_s2, t_empty, t_udp}
\* server ids and names a directory can hold; the last one holds a ':'
ServerTexts == FieldTexts \cup {<<"s", ":", "1">>}

PidValues == (0..MaxPid) \cup {1234}

Requests ==
    {Status, Disconnect}
    \cup {Connect(id, p) : id \in ServerTexts, p \in Protocols}
    \cup {Killswitch(b) : b \in BOOLEAN}

Responses ==
    {ResponseStatus(Disconnected)}
    \cup {ResponseStatus(Connected(n, pid, p)) :
            n \in ServerTexts, pid \in PidValues, p \in Protocols}

ReqFields == {t_status, t_connect, t_killswitch, t_true, t_udp, t_UDP, t_s1,
              t_empty}
RespFields == {t_status, t_connected, t_disconnected, <<"1">>, t_s1, t_udp}

RequestMessages ==
    {join(f) : f \in SeqsUpTo(ReqFields, MaxReqFields)}
    \cup {t_disconnect,
          join(<<t_disconnect, t_s1>>),
          join(<<t_killswitch, t_false>>),
          join(<<t_killswitch, t_false, t_false>>),
          join(<<t_connect, t_s2, t_tcp>>),
          join(<<t_connect, t_s1, <<"T", "c", "P">>>>),
          join(<<t_connect, t_s1, <<"u", "d", "p", " ">>>>)}
ResponseMessages ==
    {join(f) : f \in SeqsUpTo(RespFields, MaxRespFields)}
    \cup {join(<<t_status, t_connected, <<" ", "+", "0", "7", "\n">>, t_s1, t_UDP>>),
          join(<<t_status, t_connected, <<"-", "1">>, t_s1, t_udp>>),
          join(<<t_status, t_connected, <<"x">>, t_s1, t_s1>>),
          join(<<t_status, t_connected, t_empty, t_s1, t_udp>>),
          join(<<t_status, t_connected, <<"1">>, t_empty, t_tcp>>),
          join(<<t_status, t_connected, t_u32_max, t_s1, t_udp, t_empty>>),
          join(<<t_status, t_connected, t_u32_max \o <<"0">>, t_s1, t_udp>>),
          t_empty}

CodecInputs ==
    {[kind |-> "request", val |-> r] : r \in Requests}
    \cup {[kind |-> "request_bytes", val |-> m] : m \in RequestMessages}
    \cup {[kind |-> "response", val |-> r] : r \in Responses}
    \cup {[kind |-> "response_bytes", val |-> m] : m \in ResponseMessages}

NoInput == [kind |-> "none"]

CodecInit ==
    /\ input \in CodecInputs
    /\ wire = NoText
    /\ decoded = NoResult

CodecIdle ==
    /\ input = NoInput
    /\ wire = NoText
    /\ decoded = NoResult

\* the CLI sends a request: daemon::send_request writes req.serialize()
send_request ==
    /\ input.kind = "request"
    /\ wire = NoText
    /\ wire' = Request_serialize(input.val)
    /\ UNCHANGED <<input, decoded, daemonVars, osVars, obsVars, sigVars>>

\* any other local process writes bytes of its own to the socket
RawRequestWrite ==
    /\ input.kind = "request_bytes"
    /\ wire = NoText
    /\ wire' = input.val
    /\ UNCHANGED <<input, decoded, daemonVars, osVars, obsVars, sigVars>>

\* the accept loop reads the payload and decodes it
DaemonDecode ==
    /\ input.kind \in {"request", "request_bytes"}
    /\ wire # NoText
    /\ decoded = NoResult
    /\ decoded' = Request_deserialize(wire)
    /\ UNCHANGED <<input, wire, daemonVars, osVars, obsVars, sigVars>>

\* handle_status_request writes res.serialize()
WriteStatusReply ==
    /\ input.kind = "response"
    /\ wire = NoText
    /\ wire' = Response_serialize(input.val)
    /\ UNCHANGED <<input, decoded, daemonVars, osVars, obsVars, sigVars>>

\* bytes of another origin arrive at the CLI as the reply
RawResponseWrite ==
    /\ input.kind = "response_bytes"
    /\ wire = NoText
    /\ wire' = input.val
    /\ UNCHANGED <<input, decoded, daemonVars, osVars, obsVars, sigVars>>

\* handle_status_subcommand reads the reply and decodes it
ClientDecode ==
    /\ input.kind \in {"response", "response_bytes"}
    /\ wire # NoText
    /\ decoded = NoResult
    /\ decoded' = Response_deserialize(wire)
    /\ UNCHANGED <<input, wire, daemonVars, osVars, obsVars, sigVars>>

CodecNext ==
    \/ send_request
    \/ RawRequestWrite
    \/ DaemonDecode
    \/ WriteStatusReply
    \/ RawResponseWrite
    \/ ClientDecode

----------------------------------------------------------------------------
(* Daemon: values *)

None    == [kind |-> "None"]
Some(v) == [kind |-> "Some", val |-> v]

NoFile  == [kind |-> "NoFile"]
File(c) == [kind |-> "File", content |-> c]

Pids == 1..MaxPid

\* api::types::LogicalServer, the fields the daemon reads
LogicalServer(id, name) == [id |-> id, name |-> name]

\* the directory api::logicals() returned at startup
Directory == {LogicalServer(t_s1, <<"N","L","#","1">>),
              LogicalServer(t_s2, <<"C","H","#","2">>)}

\* LogicalServers::as_hashmap, then HashMap::get
servers_get(server_id) ==
    IF \E s \in Directory : s.id = server_id
    THEN Some(CHOOSE s \in Directory : s.id = server_id)
    ELSE None

\* daemon::ActiveServer
ActiveServer(pid, server, protocol) ==
    [pid |-> pid, server |-> server, protocol |-> protocol]

----------------------------------------------------------------------------
(* Operating system: processes, files and the packet filter.  A world is  *)
(* the state of the system together with fx, the effects the handler of   *)
(* the current connection has had on it so far, in order.                 *)

World == [procs |-> procs, pidfile |-> pidfile, backup_file |-> backup_file,
          iptables |-> iptables, fx |-> << >>]

Effect(w, e) == [w EXCEPT !.fx = Append(@, e)]

Chains == {"INPUT", "OUTPUT", "FORWARD"}

\* the ruleset of the host before the daemon touches it
UserRuleset == [policy |-> [c \in Chains |-> "ACCEPT"],
                rules  |-> << <<"-A","INPUT","-j","user-rule">> >>]

\* `iptables <args>`: what one invocation does to the ruleset in force
iptables_exec(rs, args) ==
    IF args[1] = "-F" THEN [rs EXCEPT !.rules = << >>]
    ELSE IF args[1] = "-P" THEN [rs EXCEPT !.policy[args[2]] = args[3]]
    ELSE [rs EXCEPT !.rules = Append(@, args)]

\* utils::kill_process: `delivered` is whether the kill(2) call succeeds
kill_process(w, pid, signal, delivered) ==
    IF w.procs[pid] = "none"
    THEN [res |-> Err("No such process"), w |-> w]
    ELSE IF delivered
    THEN [res |-> Ok("unit"),
          w   |-> Effect([w EXCEPT !.procs[pid] = "none"],
                         [op |-> "signal", pid |-> pid, signal |-> signal])]
    ELSE [res |-> Err("Failed to send out SIGTERM"), w |-> w]

----------------------------------------------------------------------------
(* Killswitch (linux): src/killswitch.rs *)

\* the interface name openvpn::parse_nic reads from ovpn.log
Device == "tun0"

\* config.killswitch.custom_rules, each rule split at " "
CustomRules == << <<"-A","OUTPUT","-d","10.0.0.0/8","-j","ACCEPT">>,
                  <<"-A","INPUT","-s","10.0.0.0/8","-j","ACCEPT">> >>

\* Protocol::default_ports: five ports for UDP, three for TCP
default_ports(proto) ==
    IF proto = "Udp" THEN <<"5060", "4569", "80", "1194", "51820">>
    ELSE <<"tcp-port-1", "tcp-port-2", "tcp-port-3">>

proto_text(proto) == IF proto = "Udp" THEN "udp" ELSE "tcp"

RECURSIVE port_rules(_, _)
port_rules(proto, ports) ==
    IF ports = << >> THEN << >>
    ELSE << <<"-A","OUTPUT","-p",proto_text(proto),"-m",proto_text(proto),
              "--dport",Head(ports),"-j","ACCEPT">>,
            <<"-A","INPUT","-p",proto_text(proto),"-m",proto_text(proto),
              "--sport",Head(ports),"-j","ACCEPT">> >>
         \o port_rules(proto, Tail(ports))

\* variant: the operator's rules go before the port rules
killswitch_rules_CustomFirst(proto) ==
    << <<"-F">>,
       <<"-P","INPUT","DROP">>,
       <<"-P","OUTPUT","DROP">>,
       <<"-P","FORWARD","DROP">>,
       <<"-A","OUTPUT","-o","lo","-j","ACCEPT">>,
       <<"-A","INPUT","-i","lo","-j","ACCEPT">>,
       <<"-A","OUTPUT","-o",Device,"-j","ACCEPT">>,
       <<"-A","INPUT","-i",Device,"-j","ACCEPT">>,
       <<"-A","OUTPUT","-o",Device,"-m","state","--state","ESTABLISHED,RELATED",
         "-j","ACCEPT">>,
       <<"-A","INPUT","-i",Device,"-m","state","--state","ESTABLISHED,RELATED",
         "-j","ACCEPT">> >>
    \o CustomRules
    \o port_rules(proto, default_ports(proto))

\* the rule list linux::enable builds, each rule as set_rule splits it
killswitch_rules(proto) ==
    << <<"-F">>,
       <<"-P","INPUT","DROP">>,
       <<"-P","OUTPUT","DROP">>,
       <<"-P","FORWARD","DROP">>,
       <<"-A","OUTPUT","-o","lo","-j","ACCEPT">>,
       <<"-A","INPUT","-i","lo","-j","ACCEPT">>,
       <<"-A","OUTPUT","-o",Device,"-j","ACCEPT">>,
       <<"-A","INPUT","-i",Device,"-j","ACCEPT">>,
       <<"-A","OUTPUT","-o",Device,"-m","state","--state","ESTABLISHED,RELATED",
         "-j","ACCEPT">>,
       <<"-A","INPUT","-i",Device,"-m","state","--state","ESTABLISHED,RELATED",
         "-j","ACCEPT">> >>
    \o port_rules(proto, default_ports(proto))
    \o CustomRules

\* the two rule lists, built once
rules_for == [proto \in Protocols |-> killswitch_rules(proto)]

\* Iptables::apply_rules: one `iptables` run per rule, in list order, stopping
\* at the first that fails; fail_at = 0 when none fails
RECURSIVE apply_rules_from(_, _, _, _)
apply_rules_from(rs, rules, i, fail_at) ==
    IF i > Len(rules) \/ i = fail_at THEN rs
    ELSE apply_rules_from(iptables_exec(rs, rules[i]), rules, i + 1, fail_at)

apply_rules(w, proto, rules, fail_at) ==
    LET applied == IF fail_at = 0 THEN Len(rules) ELSE fail_at - 1
        w1 == Effect([w EXCEPT !.iptables = apply_rules_from(@, rules, 1, fail_at)],
                     [op |-> "apply_rules", proto |-> proto, applied |-> applied,
                      of |-> Len(rules)])
    IN  [res |-> IF fail_at = 0 THEN Ok("unit")
                 ELSE Err("Failed to run command in subprocess"),
         w   |-> w1]

\* Iptables::backup: `save` is whether iptables-save and the write succeed
\* variant: the dump is taken whether or not a backup exists
Iptables_backup_Overwrites(w, save) ==
    IF ~save THEN [res |-> Err("unable to dump iptables rules"), w |-> w]
    ELSE [res |-> Ok("unit"),
          w   |-> Effect([w EXCEPT !.backup_file = File(w.iptables)],
                         [op |-> "backup"])]

Iptables_backup(w, save) ==
    IF w.backup_file # NoFile THEN [res |-> Ok("unit"), w |-> w]
    ELSE IF ~save THEN [res |-> Err("unable to dump iptables rules"), w |-> w]
    ELSE [res |-> Ok("unit"),
          w   |-> Effect([w EXCEPT !.backup_file = File(w.iptables)],
                         [op |-> "backup"])]

\* what the host does to one call of linux::enable
EnableEnvs(proto) ==
    {[save |-> FALSE, nic |-> "device", fail_at |-> 0],
     [save |-> TRUE, nic |-> "no_log", fail_at |-> 0],
     [save |-> TRUE, nic |-> "no_device", fail_at |-> 0]}
    \cup {[save |-> TRUE, nic |-> "device", fail_at |-> k] :
            k \in {j \in {0, 1, MaxFailAt} : j <= Len(rules_for[proto])}}

\* variant: the rules are applied first, the backup is taken afterwards
enable_RulesBeforeBackup(w, proto, env) ==
    IF env.nic = "no_log"
    THEN [res |-> Err("ovpn.log: No such file"), w |-> w]
    ELSE IF env.nic = "no_device"
    THEN [res |-> Panic("device name"), w |-> w]
    ELSE LET a == apply_rules(w, proto, rules_for[proto], env.fail_at)
         IN  IF ~IsOk(a.res) THEN a
             ELSE Iptables_backup(a.w, env.save)

\* killswitch::linux::enable
enable(w, proto, env) ==
    LET b == Iptables_backup(w, env.save)
    IN  IF ~IsOk(b.res) THEN b
        ELSE IF env.nic = "no_log"
        THEN [res |-> Err("ovpn.log: No such file"), w |-> b.w]
        ELSE IF env.nic = "no_device"
        THEN [res |-> Panic("device name"), w |-> b.w]
        ELSE apply_rules(b.w, proto, rules_for[proto], env.fail_at)

\* Iptables::restore: `restored` is whether iptables-restore succeeds
Iptables_restore(w, restored) ==
    IF w.backup_file = NoFile THEN [res |-> Err("iptables.backup: No such file"), w |-> w]
    ELSE IF ~restored THEN [res |-> Err("Failed to restore iptables backup"), w |-> w]
    ELSE [res |-> Ok("unit"),
          w   |-> Effect([w EXCEPT !.iptables = w.backup_file.content],
                         [op |-> "restore"])]

\* killswitch::linux::disable
disable(w, restored) == Iptables_restore(w, restored)

----------------------------------------------------------------------------
(* Tunnel supervisor: src/client/openvpn.rs *)

\* variant: the pid record is left in place
openvpn_disconnect_KeepsPidFile(w, pid, delivered) ==
    kill_process(w, pid, "Term", delivered)

\* openvpn::disconnect: the result of cache::delete::<Pid>() is dropped
openvpn_disconnect(w, pid, delivered) ==
    LET k == kill_process(w, pid, "Term", delivered)
    IN  IF ~IsOk(k.res) THEN k
        ELSE IF k.w.pidfile = NoFile THEN k
        ELSE [res |-> Ok("unit"),
              w   |-> Effect([k.w EXCEPT !.pidfile = NoFile], [op |-> "delete_pidfile"])]

\* what the host does to one call of openvpn::connect, up to child.wait():
\* a configuration error, a spawn error, or a tunnel process with pid `child`
LaunchEnvs(w) ==
    {[launch |-> "config_error", child |-> 0], [launch |-> "spawn_error", child |-> 0]}
    \cup {[launch |-> "spawned", child |-> p] : p \in {q \in Pids : w.procs[q] = "none"}}

\* openvpn::connect up to and including child.wait()
openvpn_connect(w, env) ==
    IF env.launch = "config_error"
    THEN [res |-> Err("Credentials path"), w |-> w]
    ELSE IF env.launch = "spawn_error"
    THEN [res |-> Err("error connecting with openvpn"), w |-> w]
    ELSE [res |-> Ok(env.child),
          w   |-> Effect([w EXCEPT !.procs[env.child] = "starting"],
                         [op |-> "spawn", pid |-> env.child])]

----------------------------------------------------------------------------
(* Request handlers: src/daemon.rs.  Each returns the result of the       *)
(* handler with the state it leaves: active_server, killswitch_enabled,   *)
(* the world, and whether it is now blocked in the pid-file wait.         *)

Outcome(res, active, enabled, w, pend) ==
    [res |-> res, active |-> active, enabled |-> enabled, w |-> w, pend |-> pend]

\* variant: the reply is written twice
handle_status_request_RepliesTwice(w) ==
    LET res == IF active_server = None THEN ResponseStatus(Disconnected)
               ELSE ResponseStatus(Connected(active_server.val.server.name,
                                             active_server.val.pid,
                                             active_server.val.protocol))
        reply == [op |-> "respond", bytes |-> Response_serialize(res)]
    IN  Outcome(Ok("unit"), active_server, killswitch_enabled,
                Effect(Effect(w, reply), reply), None)

\* variant: the reply does not look at active_server
handle_status_request_AlwaysDisconnected(w) ==
    Outcome(Ok("unit"), active_server, killswitch_enabled,
            Effect(w, [op |-> "respond",
                       bytes |-> Response_serialize(ResponseStatus(Disconnected))]),
            None)

handle_status_request(w) ==
    LET res == IF active_server = None THEN ResponseStatus(Disconnected)
               ELSE ResponseStatus(Connected(active_server.val.server.name,
                                             active_server.val.pid,
                                             active_server.val.protocol))
    IN  Outcome(Ok("unit"), active_server, killswitch_enabled,
                Effect(w, [op |-> "respond", bytes |-> Response_serialize(res)]),
                None)

\* variant: active_server is cleared whether or not the process was signalled
handle_disconnect_request_ClearsOnError(w, delivered) ==
    IF active_server = None
    THEN Outcome(Ok("unit"), active_server, killswitch_enabled, w, None)
    ELSE LET d == openvpn_disconnect(w, active_server.val.pid, delivered)
         IN  Outcome(d.res, None, killswitch_enabled, d.w, None)

\* variant: the pid record is deleted when there is no active server too
handle_disconnect_request_DeletesWhenIdle(w, delivered) ==
    IF active_server = None
    THEN Outcome(Ok("unit"), active_server, killswitch_enabled,
                 Effect([w EXCEPT !.pidfile = NoFile], [op |-> "delete_pidfile"]),
                 None)
    ELSE LET d == openvpn_disconnect(w, active_server.val.pid, delivered)
         IN  IF ~IsOk(d.res)
             THEN Outcome(d.res, active_server, killswitch_enabled, d.w, None)
             ELSE Outcome(Ok("unit"), None, killswitch_enabled, d.w, None)

handle_disconnect_request(w, delivered) ==
    IF active_server = None
    THEN Outcome(Ok("unit"), active_server, killswitch_enabled, w, None)
    ELSE LET d == openvpn_disconnect(w, active_server.val.pid, delivered)
         IN  IF ~IsOk(d.res)
             THEN Outcome(d.res, active_server, killswitch_enabled, d.w, None)
             ELSE Outcome(Ok("unit"), None, killswitch_enabled, d.w, None)

\* variant: no early return for the server and protocol already active
handle_connect_request_AlwaysReplaces(w, server_id, protocol, kenv, delivered, lenv) ==
    LET found == servers_get(server_id)
        stay(res, w1) == Outcome(res, active_server, killswitch_enabled, w1, None)
        launch(w1) ==
            LET c == openvpn_connect(w1, lenv)
            IN  IF ~IsOk(c.res) THEN stay(c.res, c.w)
                ELSE Outcome(Ok("unit"), active_server, killswitch_enabled, c.w,
                             Some([server |-> found.val, protocol |-> protocol]))
    IN  IF found = None THEN stay(Ok("unit"), w)
        ELSE IF active_server = None THEN launch(w)
        ELSE LET active == active_server.val
                 same_protocol == protocol = active.protocol
                 e == IF ~same_protocol /\ killswitch_enabled
                      THEN enable(w, protocol, kenv)
                      ELSE [res |-> Ok("unit"), w |-> w]
             IN  IF ~IsOk(e.res) THEN stay(e.res, e.w)
                 ELSE LET k == kill_process(e.w, active.pid, "Term", delivered)
                      IN  IF ~IsOk(k.res) THEN stay(k.res, k.w)
                          ELSE launch(k.w)

\* variant: the old process is signalled before the killswitch is re-applied
handle_connect_request_KillsFirst(w, server_id, protocol, kenv, delivered, lenv) ==
    LET found == servers_get(server_id)
        stay(res, w1) == Outcome(res, active_server, killswitch_enabled, w1, None)
        launch(w1) ==
            LET c == openvpn_connect(w1, lenv)
            IN  IF ~IsOk(c.res) THEN stay(c.res, c.w)
                ELSE Outcome(Ok("unit"), active_server, killswitch_enabled, c.w,
                             Some([server |-> found.val, protocol |-> protocol]))
    IN  IF found = None THEN stay(Ok("unit"), w)
        ELSE IF active_server = None THEN launch(w)
        ELSE LET active == active_server.val
                 same_server == server_id = active.server.id
                 same_protocol == protocol = active.protocol
             IN  IF same_server /\ same_protocol THEN stay(Ok("unit"), w)
                 ELSE LET k == kill_process(w, active.pid, "Term", delivered)
                      IN  IF ~IsOk(k.res) THEN stay(k.res, k.w)
                          ELSE LET e == IF ~same_protocol /\ killswitch_enabled
                                        THEN enable(k.w, protocol, kenv)
                                        ELSE [res |-> Ok("unit"), w |-> k.w]
                               IN  IF ~IsOk(e.res) THEN stay(e.res, e.w)
                                   ELSE launch(e.w)

\* variant: an id that is not in the directory is an error
handle_connect_request_UnknownIsError(w, server_id, protocol, kenv, delivered, lenv) ==
    LET found == servers_get(server_id)
        stay(res, w1) == Outcome(res, active_server, killswitch_enabled, w1, None)
        launch(w1) ==
            LET c == openvpn_connect(w1, lenv)
            IN  IF ~IsOk(c.res) THEN stay(c.res, c.w)
                ELSE Outcome(Ok("unit"), active_server, killswitch_enabled, c.w,
                             Some([server |-> found.val, protocol |-> protocol]))
    IN  IF found = None THEN stay(Err("No server found"), w)
        ELSE IF active_server = None THEN launch(w)
        ELSE LET active == active_server.val
                 same_server == server_id = active.server.id
                 same_protocol == protocol = active.protocol
             IN  IF same_server /\ same_protocol THEN stay(Ok("unit"), w)
                 ELSE LET e == IF ~same_protocol /\ killswitch_enabled
                               THEN enable(w, protocol, kenv)
                               ELSE [res |-> Ok("unit"), w |-> w]
                      IN  IF ~IsOk(e.res) THEN stay(e.res, e.w)
                          ELSE LET k == kill_process(e.w, active.pid, "Term", delivered)
                               IN  IF ~IsOk(k.res) THEN stay(k.res, k.w)
                                   ELSE launch(k.w)

\* handle_connect_request from the lookup to the tunnel process being started
handle_connect_request(w, server_id, protocol, kenv, delivered, lenv) ==
    LET found == servers_get(server_id)
        stay(res, w1) == Outcome(res, active_server, killswitch_enabled, w1, None)
        launch(w1) ==
            LET c == openvpn_connect(w1, lenv)
            IN  IF ~IsOk(c.res) THEN stay(c.res, c.w)
                ELSE Outcome(Ok("unit"), active_server, killswitch_enabled, c.w,
                             Some([server |-> found.val, protocol |-> protocol]))
    IN  IF found = None THEN stay(Ok("unit"), w)
        ELSE IF active_server = None THEN launch(w)
        ELSE LET active == active_server.val
                 same_server == server_id = active.server.id
                 same_protocol == protocol = active.protocol
             IN  IF same_server /\ same_protocol THEN stay(Ok("unit"), w)
                 ELSE LET e == IF ~same_protocol /\ killswitch_enabled
                               THEN enable(w, protocol, kenv)
                               ELSE [res |-> Ok("unit"), w |-> w]
                      IN  IF ~IsOk(e.res) THEN stay(e.res, e.w)
                          ELSE LET k == kill_process(e.w, active.pid, "Term", delivered)
                               IN  IF ~IsOk(k.res) THEN stay(k.res, k.w)
                                   ELSE launch(k.w)

\* variant: the flag is stored before the firewall step is known to have worked
handle_killswitch_request_StoresFlagOnFailure(w, enable_flag, kenv, restored) ==
    IF active_server = None
    THEN Outcome(Err("Can't enable killswitch as there is no active vpn connection"),
                 active_server, killswitch_enabled, w, None)
    ELSE LET r == IF enable_flag THEN enable(w, active_server.val.protocol, kenv)
                  ELSE disable(w, restored)
         IN  IF ~IsOk(r.res)
             THEN Outcome(r.res, active_server, enable_flag, r.w, None)
             ELSE Outcome(Ok("unit"), active_server, enable_flag, r.w, None)

\* variant: with no active server the flag is stored all the same
handle_killswitch_request_StoresFlagWhenIdle(w, enable_flag, kenv, restored) ==
    IF active_server = None
    THEN Outcome(Err("Can't enable killswitch as there is no active vpn connection"),
                 active_server, enable_flag, w, None)
    ELSE LET r == IF enable_flag THEN enable(w, active_server.val.protocol, kenv)
                  ELSE disable(w, restored)
         IN  IF ~IsOk(r.res)
             THEN Outcome(r.res, active_server, killswitch_enabled, r.w, None)
             ELSE Outcome(Ok("unit"), active_server, enable_flag, r.w, None)

\* variant: switching the killswitch off forgets the connection
handle_killswitch_request_ForgetsConnection(w, enable_flag, kenv, restored) ==
    IF active_server = None
    THEN Outcome(Err("Can't enable killswitch as there is no active vpn connection"),
                 active_server, killswitch_enabled, w, None)
    ELSE LET r == IF enable_flag THEN enable(w, active_server.val.protocol, kenv)
                  ELSE disable(w, restored)
         IN  IF ~IsOk(r.res)
             THEN Outcome(r.res, active_server, killswitch_enabled, r.w, None)
             ELSE Outcome(Ok("unit"), IF enable_flag THEN active_server ELSE None,
                          enable_flag, r.w, None)

handle_killswitch_request(w, enable_flag, kenv, restored) ==
    IF active_server = None
    THEN Outcome(Err("Can't enable killswitch as there is no active vpn connection"),
                 active_server, killswitch_enabled, w, None)
    ELSE LET r == IF enable_flag THEN enable(w, active_server.val.protocol, kenv)
                  ELSE disable(w, restored)
         IN  IF ~IsOk(r.res)
             THEN Outcome(r.res, active_server, killswitch_enabled, r.w, None)
             ELSE Outcome(Ok("unit"), active_server, enable_flag, r.w, None)

handle_socket_request(w, req, kenv, delivered, lenv, restored) ==
    IF req.type = "Status" THEN handle_status_request(w)
    ELSE IF req.type = "Disconnect" THEN handle_disconnect_request(w, delivered)
    ELSE IF req.type = "Connect"
    THEN handle_connect_request(w, req.id, req.protocol, kenv, delivered, lenv)
    ELSE handle_killswitch_request(w, req.enable, kenv, restored)

----------------------------------------------------------------------------
(* The accept loop of start_service, one connection per step *)

\* a byte that is not UTF-8
BadByte == "0xFF"

\* Read::read_to_string: an error on bytes that are not UTF-8
read_to_string(bytes) ==
    IF \E i \in 1..Len(bytes) : bytes[i] = BadByte
    THEN Err("stream did not contain valid UTF-8")
    ELSE Ok(bytes)

\* what clients write to the socket
DaemonRequests ==
    {Status, Disconnect}
    \cup {Connect(id, p) : id \in {t_s1, t_s2, t_server1}, p \in Protocols}
    \cup {Killswitch(b) : b \in BOOLEAN}

DaemonPayloads ==
    {Request_serialize(r) : r \in DaemonRequests}
    \cup {join(<<t_connect, t_s1>>),
          join(<<t_s1, t_connect>>),
          join(<<t_killswitch, t_s1>>),
          t_empty,
          join(<<t_connect, t_s1, t_s2>>),
          <<"s", BadByte>>}

Observe(req, res, fx) == [req |-> req, res |-> res, fx |-> fx]

\* the text the tunnel process writes in its pid file ("%u\n")
PidFileText(pid) == Pid_fmt(pid) \o <<"\n">>

\* the daemon process has not exited; the model follows the host until then
Alive == pc \in {"accept", "pidwait", "blocked"}

\* the signal-handler thread blocked in signals.forever()
\* tries counts its calls of cleanup_vpn_process, res is what the last returned
HandlerWaiting == [at |-> "waiting", fx |-> << >>, tries |-> 0, res |-> None]

\* the handler thread holds its read guard on active_server from the signal
\* to process::exit: a write() of the main thread blocks
ReadLocked == handler.at # "waiting"

DaemonInit ==
    /\ pc = "accept"
    /\ active_server = None
    /\ killswitch_enabled = FALSE
    /\ pending = None
    /\ procs = [p \in Pids |-> "none"]
    /\ pidfile = NoFile
    /\ backup_file = NoFile
    /\ iptables = UserRuleset
    /\ last = Observe(None, None, << >>)
    /\ handler = HandlerWaiting

DaemonIdle ==
    /\ pc = "accept"
    /\ active_server = None
    /\ killswitch_enabled = FALSE
    /\ pending = None
    /\ procs = [p \in Pids |-> "none"]
    /\ pidfile = NoFile
    /\ backup_file = NoFile
    /\ iptables = UserRuleset
    /\ last = Observe(None, None, << >>)
    /\ handler = HandlerWaiting

\* the handler is about to store a new active_server while the signal
\* handler holds its read guard: active_server.write() does not return
WriteBlocks(o) == ReadLocked /\ o.active # active_server

\* the state a handler leaves behind
Leave(req, o) ==
    /\ active_server' = IF WriteBlocks(o) THEN active_server ELSE o.active
    /\ handler' = handler
    /\ killswitch_enabled' = o.enabled
    /\ pending' = o.pend
    /\ procs' = o.w.procs
    /\ pidfile' = o.w.pidfile
    /\ backup_file' = o.w.backup_file
    /\ iptables' = o.w.iptables
    /\ pc' = IF IsPanic(o.res) THEN "crashed"
             ELSE IF WriteBlocks(o) THEN "blocked"
             ELSE IF o.pend # None THEN "pidwait"
             ELSE "accept"
    /\ last' = Observe(req, IF o.pend # None \/ WriteBlocks(o) THEN [kind |-> "Pending"]
                            ELSE o.res,
                       o.w.fx)

\* the accept loop's reading of each payload: read_to_string, then
\* Request::deserialize of the text read
Incoming ==
    {[text |-> read_to_string(payload),
      req  |-> IF IsOk(read_to_string(payload)) THEN Request_deserialize(payload)
               ELSE None] : payload \in DaemonPayloads}

IncomingOf(type) ==
    {m \in Incoming : IsOk(m.text) /\ IsOk(m.req) /\ m.req.val.type = type}

\* client.read_to_string(msg)? fails: start_service returns the error
ReadFails ==
    /\ pc = "accept"
    /\ \E m \in Incoming :
          /\ ~IsOk(m.text)
          /\ pc' = "failed"
          /\ last' = Observe(m.text, None, << >>)
    /\ UNCHANGED <<active_server, killswitch_enabled, pending, osVars, codecVars, sigVars>>

\* Request::deserialize panics: the main thread unwinds
DecodePanics ==
    /\ pc = "accept"
    /\ \E m \in Incoming :
          /\ IsOk(m.text)
          /\ IsPanic(m.req)
          /\ pc' = "crashed"
          /\ last' = Observe(m.req, None, << >>)
    /\ UNCHANGED <<active_server, killswitch_enabled, pending, osVars, codecVars, sigVars>>

\* Request::deserialize returns Err: `if let Ok(..)` skips the connection
DecodeFails ==
    /\ pc = "accept"
    /\ \E m \in Incoming :
          /\ IsOk(m.text)
          /\ IsErr(m.req)
          /\ last' = Observe(m.req, None, << >>)
    /\ UNCHANGED <<pc, active_server, killswitch_enabled, pending, osVars, codecVars, sigVars>>

\* the host's answers when a call is not reached
NoKenv == [save |-> TRUE, nic |-> "device", fail_at |-> 0]
NoLenv == [launch |-> "config_error", child |-> 0]
NoEnv  == [kenv |-> NoKenv, delivered |-> TRUE, lenv |-> NoLenv, restored |-> TRUE]

StatusRequest ==
    /\ pc = "accept"
    /\ \E m \in IncomingOf("Status") :
          Leave(m.req, handle_socket_request(World, m.req.val, NoKenv, TRUE, NoLenv, TRUE))
    /\ UNCHANGED codecVars

DisconnectRequest ==
    /\ pc = "accept"
    /\ \E m \in IncomingOf("Disconnect"),
          delivered \in (IF active_server # None THEN BOOLEAN ELSE {TRUE}) :
          Leave(m.req, handle_socket_request(World, m.req.val, NoKenv, delivered,
                                             NoLenv, TRUE))
    /\ UNCHANGED codecVars

\* which of the host's calls a Connect to (id, protocol) reaches from the
\* current state: the kill of the old process, the killswitch re-apply
Replaces(id, protocol) ==
    /\ servers_get(id) # None
    /\ active_server # None
    /\ ~(id = active_server.val.server.id /\ protocol = active_server.val.protocol)

Reapplies(id, protocol) ==
    /\ Replaces(id, protocol)
    /\ protocol # active_server.val.protocol
    /\ killswitch_enabled

\* kill_process waits for the old process to exit, so the new one can be
\* given its pid
Freed(id, protocol) ==
    IF Replaces(id, protocol)
    THEN {[launch |-> "spawned", child |-> active_server.val.pid]}
    ELSE {}

\* the host's answers to the calls of one Connect, a later call answered
\* only when every earlier one succeeded
ConnectEnvs(id, protocol) ==
    (IF Reapplies(id, protocol)
     THEN {[NoEnv EXCEPT !.kenv = k] : k \in EnableEnvs(protocol)}
     ELSE {})
    \cup (IF Replaces(id, protocol)
          THEN {[NoEnv EXCEPT !.delivered = FALSE]}
          ELSE {})
    \cup (IF servers_get(id) # None
          THEN {[NoEnv EXCEPT !.lenv = l] : l \in LaunchEnvs(World) \cup Freed(id, protocol)}
          ELSE {NoEnv})

ConnectRequest ==
    /\ pc = "accept"
    /\ \E m \in IncomingOf("Connect") :
          \E env \in ConnectEnvs(m.req.val.id, m.req.val.protocol) :
             Leave(m.req, handle_socket_request(World, m.req.val, env.kenv,
                                                env.delivered, env.lenv, TRUE))
    /\ UNCHANGED codecVars

KillswitchRequest ==
    /\ pc = "accept"
    /\ \E m \in IncomingOf("Killswitch") :
          \E kenv \in (IF active_server # None /\ m.req.val.enable
                       THEN EnableEnvs(active_server.val.protocol)
                       ELSE {NoKenv}),
             restored \in (IF active_server # None /\ ~m.req.val.enable
                           THEN BOOLEAN ELSE {TRUE}) :
             Leave(m.req, handle_socket_request(World, m.req.val, kenv, TRUE,
                                                NoLenv, restored))
    /\ UNCHANGED codecVars

\* wait_for_file_and_read returns the text of the pid file once the file
\* exists; Pid::try_from parses it and handle_connect_request stores the
\* connection, or returns the parse error
ConnectPidWait ==
    /\ pc = "pidwait"
    /\ pidfile # NoFile
    /\ LET pid == Pid_try_from(pidfile.content)
           o   == [active |-> Some(ActiveServer(pid.val, pending.val.server,
                                                pending.val.protocol))]
       IN  IF ~IsOk(pid)
           THEN /\ active_server' = active_server
                /\ pc' = "accept"
                /\ last' = [last EXCEPT !.res = pid]
           ELSE IF WriteBlocks(o)
           THEN /\ active_server' = active_server
                /\ pc' = "blocked"
                /\ last' = last
           ELSE /\ active_server' = o.active
                /\ pc' = "accept"
                /\ last' = [last EXCEPT !.res = Ok("unit")]
    /\ pending' = None
    /\ UNCHANGED <<killswitch_enabled, osVars, codecVars, sigVars>>

\* wait_for_file_and_read returns an error: the watcher cannot be created
\* or reports an error event
PidWatchFails ==
    /\ pc = "pidwait"
    /\ pending' = None
    /\ pc' = "accept"
    /\ last' = [last EXCEPT !.res = Err("notify")]
    /\ UNCHANGED <<active_server, killswitch_enabled, osVars, codecVars, sigVars>>

\* the tunnel process writes its pid file (--writepid), over whatever the
\* file held
TunnelWritesPid ==
    /\ Alive
    /\ \E p \in Pids :
          /\ procs[p] = "starting"
          /\ procs' = [procs EXCEPT ![p] = "running"]
          /\ pidfile' = File(PidFileText(p))
    /\ UNCHANGED <<daemonVars, backup_file, iptables, obsVars, codecVars, sigVars>>

\* a tunnel process exits on its own
TunnelExits ==
    /\ Alive
    /\ \E p \in Pids :
          /\ procs[p] # "none"
          /\ procs' = [procs EXCEPT ![p] = "none"]
    /\ UNCHANGED <<daemonVars, pidfile, backup_file, iptables, obsVars, codecVars, sigVars>>

\* The signal-handler thread of spawn_signal_handler.  It runs beside the
\* main thread: its steps interleave with the requests.

\* the attempts of handle_stop_request's loop: `for _ in 0..3`
StopAttempts == 3

\* cleanup_vpn_process: SIGTERM, and SIGKILL when that fails
cleanup_vpn_process(w, active, delivered, forced) ==
    IF active = None THEN [res |-> Ok("unit"), w |-> w]
    ELSE LET k == kill_process(w, active.val.pid, "Term", delivered)
         IN  IF IsOk(k.res) THEN k
             ELSE kill_process(k.w, active.val.pid, "Kill", forced)

\* SIGINT or SIGTERM is delivered: signals.forever() yields, the thread
\* takes its read guard on active_server and calls killswitch::disable(),
\* whose error is logged
SignalArrives ==
    /\ Alive
    /\ handler.at = "waiting"
    /\ \E restored \in (IF backup_file # NoFile THEN BOOLEAN ELSE {TRUE}) :
          LET d == disable(World, restored)
          IN  /\ iptables' = d.w.iptables
              /\ handler' = [handler EXCEPT !.at = "cleanup", !.fx = d.w.fx]
    /\ UNCHANGED <<daemonVars, procs, pidfile, backup_file, obsVars, codecVars>>

\* cleanup_vpn_process(&active_server), its error logged, then
\* std::process::exit(0)
HandlerCleansUp ==
    /\ Alive
    /\ handler.at = "cleanup"
    /\ LET tracked == active_server # None /\ procs[active_server.val.pid] # "none"
       IN  \E delivered \in (IF tracked THEN BOOLEAN ELSE {TRUE}),
              forced \in (IF tracked THEN BOOLEAN ELSE {TRUE}) :
              /\ delivered => forced
              /\ LET c == cleanup_vpn_process([World EXCEPT !.fx = handler.fx],
                                              active_server, delivered, forced)
                 IN  /\ procs' = c.w.procs
                     /\ handler' = [at |-> "done", fx |-> c.w.fx,
                                     tries |-> handler.tries + 1, res |-> c.res]
    /\ pc' = "exited"
    /\ UNCHANGED <<active_server, killswitch_enabled, pending, pidfile, backup_file,
                   iptables, obsVars, codecVars>>

\* handle_stop_request.  No request of the wire protocol reaches it and
\* nothing in the repository calls it; StopCall stands for a call from the
\* main thread, the only thread that holds the Rc<State> it takes.
StopCall == [type |-> "Stop"]

\* the loop of handle_stop_request from attempt n + 1 on.  The host refuses
\* both signals in the first `fails` attempts; in the next one SIGTERM is
\* delivered, or SIGKILL when `delivered` is false.  killswitch::disable()?
\* runs only after an attempt that succeeded, and its error is returned
\* before process::exit is reached.
RECURSIVE stop_attempts(_, _, _, _, _)
stop_attempts(w, n, fails, delivered, restored) ==
    IF n = StopAttempts THEN [res |-> Ok("exit"), w |-> w]
    ELSE LET c == cleanup_vpn_process(w, active_server, n >= fails /\ delivered,
                                      n >= fails)
         IN  IF ~IsOk(c.res)
             THEN stop_attempts(c.w, n + 1, fails, delivered, restored)
             ELSE IF ~killswitch_enabled THEN [res |-> Ok("exit"), w |-> c.w]
             ELSE LET d == disable(c.w, restored)
                  IN  IF IsOk(d.res) THEN [res |-> Ok("exit"), w |-> d.w]
                      ELSE d

handle_stop_request(w, fails, delivered, restored) ==
    stop_attempts(w, 0, fails, delivered, restored)

\* the host's answers to one call of handle_stop_request
StopEnvs ==
    IF active_server # None /\ procs[active_server.val.pid] # "none"
    THEN {[fails |-> f, delivered |-> d, restored |-> r] :
             f \in 0..StopAttempts,
             d \in BOOLEAN,
             r \in (IF killswitch_enabled THEN BOOLEAN ELSE {TRUE})}
    ELSE {[fails |-> 0, delivered |-> TRUE, restored |-> r] :
             r \in (IF killswitch_enabled /\ active_server = None
                    THEN BOOLEAN ELSE {TRUE})}

\* a call of handle_stop_request between two connections: the process exits
\* with status 0, or the error of killswitch::disable goes to the caller
StopRequest ==
    /\ pc = "accept"
    /\ \E env \in StopEnvs :
          LET o == handle_stop_request(World, env.fails, env.delivered, env.restored)
          IN  /\ procs' = o.w.procs
              /\ iptables' = o.w.iptables
              /\ pc' = IF IsOk(o.res) THEN "exited" ELSE "accept"
              /\ last' = Observe(Ok(StopCall), o.res, o.w.fx)
    /\ UNCHANGED <<active_server, killswitch_enabled, pending, pidfile, backup_file,
                   codecVars, sigVars>>

DaemonNext ==
    \/ ReadFails
    \/ DecodePanics
    \/ DecodeFails
    \/ StatusRequest
    \/ DisconnectRequest
    \/ ConnectRequest
    \/ KillswitchRequest
    \/ ConnectPidWait
    \/ PidWatchFails
    \/ TunnelWritesPid
    \/ TunnelExits

Init == DaemonInit /\ CodecIdle

Next == DaemonNext

Spec == Init /\ [][Next]_vars

\* The daemon with its signal-handler thread.  The thread is scheduled: once
\* it has the signal, its calls return and it reaches process::exit.
SignalNext ==
    \/ DaemonNext
    \/ SignalArrives
    \/ HandlerCleansUp

SpecSignal == Init /\ [][SignalNext]_vars /\ WF_vars(HandlerCleansUp)

InitCodec == CodecInit /\ DaemonIdle

SpecCodec == InitCodec /\ [][CodecNext]_vars

----------------------------------------------------------------------------
(* The tunnel configuration: create_config of src/client/openvpn.rs,      *)
(* applied to one server and one protocol.  `input` is the server's entry  *)
(* addresses with the protocol, `decoded` what create_config returns.      *)

\* const DEFAULT_PORTS: &[u32; 5]
DEFAULT_PORTS == <<5060, 4569, 80, 1194, 51820>>

\* Remote::from_ip: one Remote per port of DEFAULT_PORTS, in that order
Remote_from_ip(ip) ==
    [i \in 1..Len(DEFAULT_PORTS) |-> [ip |-> ip, port |-> DEFAULT_PORTS[i]]]

\* server.entry_ips().into_iter().flat_map(Remote::from_ip).collect()
RECURSIVE remotes_of(_)
remotes_of(ips) ==
    IF ips = << >> THEN << >>
    ELSE Remote_from_ip(Head(ips)) \o remotes_of(Tail(ips))

\* create_config: the fields of ConfigTemplate that come from its arguments,
\* or the error of a configuration without credentials_path
create_config(entry_ips, protocol, credentials) ==
    IF ~credentials THEN Err("No credentials path specified in configuration.")
    ELSE Ok([remotes |-> remotes_of(entry_ips), protocol |-> protocol])

\* LogicalServer::entry_ips: the entry address of each physical server
EntryIps == {"10.0.0.1", "10.0.0.2", "10.0.0.3"}

ConfigInputs ==
    {[kind |-> "config", entry_ips |-> ips, protocol |-> p, credentials |-> c] :
        ips \in {<< >>} \cup SeqsUpTo(EntryIps, MaxEntryIps),
        p \in Protocols, c \in BOOLEAN}

ConfigInit ==
    /\ input \in ConfigInputs
    /\ wire = NoText
    /\ decoded = NoResult

\* openvpn::connect builds the configuration of the tunnel it is to launch
CreateConfig ==
    /\ input.kind = "config"
    /\ decoded = NoResult
    /\ decoded' = create_config(input.entry_ips, input.protocol, input.credentials)
    /\ UNCHANGED <<input, wire, daemonVars, osVars, obsVars, sigVars>>

InitConfig == ConfigInit /\ DaemonIdle

SpecConfig == InitConfig /\ [][CreateConfig]_vars

\* The daemon on a host whose administrator edits the packet filter.
\* iptables-save dumps whatever ruleset the host has at the time of the call.

\* the host's ruleset after the administrator has added a rule of their own
ChangedRuleset == [UserRuleset EXCEPT
                      !.rules = Append(@, <<"-A","OUTPUT","-j","user-rule-2">>)]

\* the rulesets the administrator keeps
HostRulesets == {UserRuleset, ChangedRuleset}

\* the administrator replaces their ruleset while it is the one in force
UserChangesRules ==
    /\ Alive
    /\ iptables \in HostRulesets
    /\ iptables' \in HostRulesets \ {iptables}
    /\ UNCHANGED <<daemonVars, procs, pidfile, backup_file, obsVars, codecVars, sigVars>>

HostNext ==
    \/ DaemonNext
    \/ UserChangesRules

SpecHost == Init /\ [][HostNext]_vars

----------------------------------------------------------------------------
(* start_service from its first statement to the accept loop.  `input` is  *)
(* what it finds: the configuration and the answer of api::logicals().    *)

\* no signal-handler thread yet: spawn_signal_handler has not run
HandlerAbsent == [HandlerWaiting EXCEPT !.at = "absent"]

\* default_server is a server of the directory, or none passes the filters
StartInputs ==
    {[kind |-> "startup", logicals |-> l, killswitch_enable |-> k,
      default_server |-> d, default_protocol |-> p] :
        l \in BOOLEAN, k \in BOOLEAN,
        d \in {None} \cup {Some(s) : s \in Directory},
        p \in Protocols}

\* the host at startup: an earlier run may have left a pid file, and the
\* process it names may still be there
StartInit ==
    /\ input \in StartInputs
    /\ wire = NoText
    /\ decoded = NoResult
    /\ pc = "start"
    /\ active_server = None
    /\ killswitch_enabled = FALSE
    /\ pending = None
    /\ procs \in {[p \in Pids |-> "none"],
                  [p \in Pids |-> IF p = 1 THEN "running" ELSE "none"]}
    /\ pidfile \in {NoFile, File(PidFileText(1))}
    /\ backup_file = NoFile
    /\ iptables = UserRuleset
    /\ last = Observe(None, None, << >>)
    /\ handler = HandlerAbsent

\* openvpn::read_pidfile: the pid in the pid file, if there is one
read_pidfile(w) ==
    IF w.pidfile = NoFile THEN Err("pid: No such file")
    ELSE Pid_try_from(w.pidfile.content)

\* variant: the error of the killswitch is logged and startup goes on
start_killswitch_LogsAndContinues(w, enable_cfg) ==
    IF ~enable_cfg
    THEN Outcome(Ok("unit"), active_server, killswitch_enabled, w, None)
    ELSE LET o == handle_killswitch_request(w, TRUE, NoKenv, TRUE)
         IN  IF IsOk(o.res) THEN o ELSE [o EXCEPT !.res = Ok("unit")]

\* `if config.killswitch.enable { handle_killswitch_request(&state, &true) }`,
\* its error turned into the error of start_service
start_killswitch(w, enable_cfg) ==
    IF ~enable_cfg
    THEN Outcome(Ok("unit"), active_server, killswitch_enabled, w, None)
    ELSE LET o == handle_killswitch_request(w, TRUE, NoKenv, TRUE)
         IN  IF IsOk(o.res) THEN o
             ELSE [o EXCEPT !.res = Err("Error trying to enable killswitch, aborting.")]

\* api::logicals()? and the construction of State
StartLoad ==
    /\ pc = "start"
    /\ IF input.logicals
       THEN pc' = "init" /\ last' = last
       ELSE pc' = "failed" /\ last' = Observe(None, Err("vpn/logicals"), << >>)
    /\ UNCHANGED <<active_server, killswitch_enabled, pending, osVars, codecVars, sigVars>>

\* the killswitch of the configuration
StartKillswitch ==
    /\ pc = "init"
    /\ LET o == start_killswitch(World, input.killswitch_enable)
       IN  /\ killswitch_enabled' = o.enabled
           /\ iptables' = o.w.iptables
           /\ backup_file' = o.w.backup_file
           /\ pc' = IF IsOk(o.res) THEN "orphans" ELSE "failed"
           /\ last' = Observe(None, o.res, o.w.fx)
    /\ UNCHANGED <<active_server, pending, procs, pidfile, codecVars, sigVars>>

\* the leftover pid file: SIGTERM to the process it names, the result logged
StartOrphanCleanup ==
    /\ pc = "orphans"
    /\ LET pid == read_pidfile(World)
       IN  IF ~IsOk(pid) \/ pid.val \notin Pids
           THEN procs' = procs /\ last' = last
           ELSE \E delivered \in (IF procs[pid.val] # "none" THEN BOOLEAN ELSE {TRUE}) :
                   LET k == kill_process(World, pid.val, "Term", delivered)
                   IN  /\ procs' = k.w.procs
                       /\ last' = Observe(None, k.res, k.w.fx)
    /\ pc' = "handler"
    /\ UNCHANGED <<active_server, killswitch_enabled, pending, pidfile, backup_file,
                   iptables, codecVars, sigVars>>

\* spawn_signal_handler(&state)?: Signals::new fails, or the thread starts
StartSignalHandler ==
    /\ pc = "handler"
    /\ \E registered \in BOOLEAN :
          IF registered
          THEN pc' = "default" /\ handler' = HandlerWaiting /\ last' = last
          ELSE /\ pc' = "failed"
               /\ handler' = handler
               /\ last' = Observe(None, Err("Signals::new"), << >>)
    /\ UNCHANGED <<active_server, killswitch_enabled, pending, osVars, codecVars>>

\* what ends the pid-file wait of the default connect: the new process has
\* written its pid, the file of an earlier run is read, or the watcher fails
DefaultWaits(w) ==
    {"written", "watch_error"} \cup (IF w.pidfile # NoFile THEN {"stale"} ELSE {})

\* handle_connect_request for the default server, its error logged
StartDefaultConnect ==
    /\ pc = "default"
    /\ IF input.default_server = None
       THEN UNCHANGED <<active_server, procs, pidfile, last>>
       ELSE \E lenv \in LaunchEnvs(World) :
               LET o == handle_connect_request(World, input.default_server.val.id,
                                               input.default_protocol, NoKenv, TRUE, lenv)
               IN  IF o.pend = None
                   THEN /\ UNCHANGED <<active_server, procs, pidfile>>
                        /\ last' = Observe(None, o.res, o.w.fx)
                   ELSE \E wait \in DefaultWaits(o.w) :
                           LET text == IF wait = "written" THEN PidFileText(lenv.child)
                                       ELSE o.w.pidfile.content
                               pid  == Pid_try_from(text)
                           IN  /\ procs' = IF wait = "written"
                                           THEN [o.w.procs EXCEPT ![lenv.child] = "running"]
                                           ELSE o.w.procs
                               /\ pidfile' = IF wait = "written" THEN File(text)
                                             ELSE o.w.pidfile
                               /\ active_server' =
                                     IF wait = "watch_error" \/ ~IsOk(pid) THEN active_server
                                     ELSE Some(ActiveServer(pid.val, o.pend.val.server,
                                                            o.pend.val.protocol))
                               /\ last' = Observe(None,
                                                  IF wait = "watch_error" THEN Err("notify")
                                                  ELSE IF ~IsOk(pid) THEN pid
                                                  ELSE Ok("unit"),
                                                  o.w.fx)
    /\ pc' = "bind"
    /\ UNCHANGED <<killswitch_enabled, pending, backup_file, iptables, codecVars, sigVars>>

\* bind_socket()?: the listener, or the error of remove_file or bind
StartBind ==
    /\ pc = "bind"
    /\ \E bound \in BOOLEAN :
          IF bound THEN pc' = "accept" /\ last' = last
          ELSE pc' = "failed" /\ last' = Observe(None, Err("bind"), << >>)
    /\ UNCHANGED <<active_server, killswitch_enabled, pending, osVars, codecVars, sigVars>>

StartNext ==
    \/ StartLoad
    \/ StartKillswitch
    \/ StartOrphanCleanup
    \/ StartSignalHandler
    \/ StartDefaultConnect
    \/ StartBind

SpecStart == StartInit /\ [][StartNext]_vars

\* The daemon with a caller of its stop path.
StopNext ==
    \/ DaemonNext
    \/ StopRequest

SpecStop == Init /\ [][StopNext]_vars

----------------------------------------------------------------------------
(* Claims about the wire protocol, checked under SpecCodec *)

RequestInput  == input.kind \in {"request", "request_bytes"}
ResponseInput == input.kind \in {"response", "response_bytes"}

\* the Request values whose server id is free of ':'
ColonFreeRequest(r) == r.type = "Connect" => ~HasColon(r.id)

\* the Response values whose server name is free of ':'
ColonFreeResponse(r) == r.status.status = "Connected" => ~HasColon(r.status.name)

\* the literal wire grammar of section 6, written out per request
WireGrammar(r) ==
    CASE r.type = "Status"     -> <<"s","t","a","t","u","s">>
      [] r.type = "Disconnect" -> <<"d","i","s","c","o","n","n","e","c","t">>
      [] r.type = "Connect"    ->
            <<"c","o","n","n","e","c","t",":">> \o r.id \o <<":">>
            \o (IF r.protocol = "Udp" THEN <<"u","d","p">> ELSE <<"t","c","p">>)
      [] r.type = "Killswitch" ->
            <<"k","i","l","l","s","w","i","t","c","h",":">>
            \o (IF r.enable THEN <<"t","r","u","e">> ELSE <<"f","a","l","s","e">>)

\* the literal response grammar of section 6
ResponseGrammar(r) ==
    IF r.status.status = "Disconnected"
    THEN <<"s","t","a","t","u","s",":","d","i","s","c","o","n","n","e","c","t","e","d">>
    ELSE <<"s","t","a","t","u","s",":","c","o","n","n","e","c","t","e","d",":">>
         \o u32_fmt(r.status.pid) \o <<":">> \o r.status.name \o <<":">>
         \o (IF r.status.protocol = "Udp" THEN <<"u","d","p">> ELSE <<"t","c","p">>)

\* C1: every Request whose server id holds no ':' decodes, after encoding,
\* to itself: Request::deserialize(Request::serialize(r)) = Ok(r).
C1_RequestRoundTrip ==
    (/\ input.kind = "request"
     /\ ColonFreeRequest(input.val)
     /\ decoded # NoResult)
    => decoded = Ok(input.val)

C1_Witness ==
    /\ input.kind = "request"
    /\ input.val = Connect(t_s2, "Tcp")
    /\ decoded = Ok(Connect(t_s2, "Tcp"))

\* C2: serialize writes exactly the grammar text of each request ("status",
\* "disconnect", "connect:<id>:<udp|tcp>", "killswitch:<true|false>"), and
\* whoever wrote it, each of those texts decodes to the request it stands for.
C2_RequestWireGrammar ==
    /\ (input.kind = "request" /\ wire # NoText) => wire = WireGrammar(input.val)
    /\ \A r \in Requests :
          (/\ RequestInput
           /\ ColonFreeRequest(r)
           /\ wire = WireGrammar(r)
           /\ decoded # NoResult)
          => decoded = Ok(r)
    /\ (input.kind = "request" /\ input.val = Connect(t_server1, "Udp") /\ wire # NoText)
          => wire = <<"c","o","n","n","e","c","t",":","s","e","r","v","e","r","1",
                      ":","u","d","p">>

C2_Witness ==
    /\ input.kind = "request_bytes"
    /\ wire = <<"k","i","l","l","s","w","i","t","c","h",":","t","r","u","e">>
    /\ decoded = Ok(Killswitch(TRUE))

C4_DecodeRejectsMalformed ==
    LET parts   == split(wire)
        command == parts[1]
        args    == Tail(parts)
    IN  /\ (RequestInput /\ decoded # NoResult) =>
              /\ command \notin {t_status, t_disconnect, t_connect, t_killswitch}
                    => IsErr(decoded)
              /\ (command = t_connect /\ Len(args) # 2) => IsErr(decoded)
              /\ (command = t_killswitch /\ args \notin {<<t_true>>, <<t_false>>})
                    => IsErr(decoded)
        /\ (ResponseInput /\ decoded # NoResult) =>
              /\ command # t_status => IsErr(decoded)
              /\ (command = t_status /\ args = << >>) => IsErr(decoded)
              /\ (command = t_status /\ args # << >>
                    /\ args[1] \notin {t_connected, t_disconnected}) => IsErr(decoded)
              /\ (command = t_status /\ args # << >>
                    /\ args[1] = t_connected /\ Len(args) # 4) => IsErr(decoded)
              /\ (command = t_status /\ args # << >>
                    /\ args[1] = t_disconnected /\ Len(args) # 1) => IsErr(decoded)

C4_Witness ==
    /\ input.kind = "request_bytes"
    /\ wire = <<"c","o","n","n","e","c","t",":","s","1">>
    /\ IsErr(decoded)

\* C5: decoding never panics: whatever the bytes, Request::deserialize and
\* Response::deserialize return a value or an error.
C5_DecodeNeverPanics ==
    decoded # NoResult => ~IsPanic(decoded)

----------------------------------------------------------------------------
(* Claims about the daemon, checked under Spec *)

\* the step takes a connection from the socket and leaves its record in `last`
RequestStep == pc = "accept" /\ last' # last

\* ... and the payload decoded to a request of this type
Handles(type) == RequestStep /\ IsOk(last'.req) /\ last'.req.val.type = type

\* the effects of one kind among those of a handler
Events(fx, op) == {i \in 1..Len(fx) : fx[i].op = op}

\* C6: a payload that fails to decode never stops the server: no response is
\* written, ActiveConnection and the killswitch flag keep their values, and
\* the daemon is back in the accept loop.
C6_MalformedNeverCrashes ==
    [][(RequestStep /\ ~IsOk(last'.req)) =>
          /\ last'.fx = << >>
          /\ active_server' = active_server
          /\ killswitch_enabled' = killswitch_enabled
          /\ pc' = "accept"]_vars

\* C7: a Connect that repeats the Connect before it, which succeeded, launches
\* no tunnel process (so the two launch at most one, the first's), sends no
\* signal and leaves ActiveConnection as it is.
C7_ConnectIdempotent ==
    [][(/\ Handles("Connect")
        /\ last.req = last'.req
        /\ last.res = Ok("unit"))
       => /\ Events(last'.fx, "spawn") = {}
          /\ Cardinality(Events(last.fx, "spawn")) <= 1
          /\ Events(last'.fx, "signal") = {}
          /\ active_server' = active_server
          /\ last'.res = Ok("unit")]_vars

C7_Witness ==
    /\ last.req = Ok(Connect(t_s1, "Tcp"))
    /\ last.res = Ok("unit")
    /\ last.fx = << >>
    /\ active_server # None
    /\ active_server.val.server.id = t_s1
    /\ active_server.val.protocol = "Tcp"

\* the killswitch re-apply of a Connect ran to the end for this protocol
\* before the i-th effect
ReappliedBefore(fx, i, protocol) ==
    \E j \in 1..(i - 1) :
        /\ fx[j].op = "apply_rules"
        /\ fx[j].proto = protocol
        /\ fx[j].applied = fx[j].of

\* the signals a handler sent to this pid
SignalsTo(fx, pid) == {i \in Events(fx, "signal") : fx[i].pid = pid}

\* C8 as stated: a Connect to another server or protocol while connected
\* sends the termination signal to the prior process exactly once, after the
\* rules for the new protocol were applied when the killswitch is enabled
\* and the protocol differs; no signal when that re-apply fails.
C8_SwitchSignalsExactlyOnce ==
    [][(Handles("Connect") /\ Replaces(last'.req.val.id, last'.req.val.protocol)) =>
          LET protocol == last'.req.val.protocol
              prior    == active_server.val.pid
              fx       == last'.fx
              reapply  == Reapplies(last'.req.val.id, protocol)
              failed   == reapply /\ ~ReappliedBefore(fx, Len(fx) + 1, protocol)
          IN  /\ Events(fx, "signal") = SignalsTo(fx, prior)
              /\ IF failed THEN SignalsTo(fx, prior) = {}
                 ELSE Cardinality(SignalsTo(fx, prior)) = 1
              /\ reapply =>
                    \A i \in SignalsTo(fx, prior) : ReappliedBefore(fx, i, protocol)]_vars

\* C8 amended: at most one termination signal, sent to the tracked pid and to
\* no other; exactly one when a process with that pid is running, the signal
\* can be delivered and the re-apply, if any, succeeded; none when the
\* re-apply fails; and with the killswitch enabled and the protocol changed
\* the rules of the new protocol are applied in full before the signal.
C8_SwitchSignalsOnceIfRunning ==
    [][(Handles("Connect") /\ Replaces(last'.req.val.id, last'.req.val.protocol)) =>
          LET protocol == last'.req.val.protocol
              prior    == active_server.val.pid
              fx       == last'.fx
              reapply  == Reapplies(last'.req.val.id, protocol)
              failed   == reapply /\ ~ReappliedBefore(fx, Len(fx) + 1, protocol)
              refused  == last'.res = Err("Failed to send out SIGTERM")
          IN  /\ Events(fx, "signal") = SignalsTo(fx, prior)
              /\ Cardinality(SignalsTo(fx, prior)) <= 1
              /\ failed => SignalsTo(fx, prior) = {}
              /\ (procs[prior] # "none" /\ ~failed /\ ~refused)
                    => Cardinality(SignalsTo(fx, prior)) = 1
              /\ reapply =>
                    \A i \in SignalsTo(fx, prior) : ReappliedBefore(fx, i, protocol)
              /\ \A i \in Events(fx, "spawn") : \E j \in SignalsTo(fx, prior) : j < i]_vars

\* a switch of protocol with the killswitch on: rules, then signal, then launch
C8_Witness ==
    /\ IsOk(last.req)
    /\ last.req.val.type = "Connect"
    /\ Len(last.fx) = 3
    /\ last.fx[1].op = "apply_rules"
    /\ last.fx[1].proto = last.req.val.protocol
    /\ last.fx[1].applied = last.fx[1].of
    /\ last.fx[2].op = "signal"
    /\ last.fx[3].op = "spawn"
    /\ killswitch_enabled

\* C9: a Disconnect with no ActiveConnection returns success, signals no
\* process, deletes no pid record and leaves ActiveConnection and the
\* killswitch flag as they are.
C9_DisconnectIdleNoop ==
    [][(Handles("Disconnect") /\ active_server = None) =>
          /\ last'.res = Ok("unit")
          /\ last'.fx = << >>
          /\ procs' = procs
          /\ pidfile' = pidfile
          /\ active_server' = active_server
          /\ killswitch_enabled' = killswitch_enabled
          /\ pc' = "accept"]_vars

C9_Witness ==
    /\ last.req = Ok(Disconnect)
    /\ last.res = Ok("unit")
    /\ last.fx = << >>
    /\ active_server = None
    /\ pidfile # NoFile

\* C10: once the backup file exists no step rewrites it: whatever enables
\* follow (toggles and protocol-change re-applies), it keeps the content the
\* first enable wrote.
C10_BackupNeverRewritten ==
    [][backup_file # NoFile => backup_file' = backup_file]_vars

\* a re-apply on a protocol change (the killswitch was enabled before and not
\* disabled since) that changed the rules in force and left the backup alone
C10_Witness ==
    /\ IsOk(last.req)
    /\ last.req.val.type = "Connect"
    /\ Events(last.fx, "apply_rules") # {}
    /\ Events(last.fx, "backup") = {}
    /\ backup_file = File(UserRuleset)
    /\ iptables # UserRuleset

\* C11: a KillswitchToggle(true) with no active connection returns an error,
\* runs no firewall operation (no backup, no rule, no restore) and leaves the
\* killswitch flag as it was.
C11_EnableWhileIdleFails ==
    [][(Handles("Killswitch") /\ last'.req.val.enable /\ active_server = None) =>
          /\ IsErr(last'.res)
          /\ last'.fx = << >>
          /\ iptables' = iptables
          /\ backup_file' = backup_file
          /\ killswitch_enabled' = killswitch_enabled]_vars

C11_Witness ==
    /\ last.req = Ok(Killswitch(TRUE))
    /\ IsErr(last.res)
    /\ last.fx = << >>
    /\ active_server = None
    /\ ~killswitch_enabled

\* the tunnel processes launched by the daemon that have not exited
Tunnels == {p \in Pids : procs[p] # "none"}

\* C12: single tunnel: in every reachable state at most one tunnel process
\* launched by the daemon is running.
C12_SingleTunnel == Cardinality(Tunnels) <= 1

\* C13: a Connect that fails with a configuration error (no credentials
\* path, or the path missing on disk) changes nothing: ActiveConnection is
\* unchanged, no tunnel process is launched, and the process tracked before
\* is still running and still the one in ActiveConnection.
C13_ConfigErrorMutatesNothing ==
    [][(Handles("Connect") /\ last'.res = Err("Credentials path")) =>
          /\ active_server' = active_server
          /\ Events(last'.fx, "spawn") = {}
          /\ active_server # None =>
                /\ Events(last'.fx, "signal") = {}
                /\ procs'[active_server.val.pid] # "none"]_vars

\* C14: a Disconnect that succeeds while connected sends one termination
\* signal, to the tracked pid, returns when that process has exited, removes
\* the pid record and clears ActiveConnection; a Status that follows it is
\* answered Disconnected.
C14_DisconnectTearsDown ==
    [][/\ (Handles("Disconnect") /\ active_server # None /\ last'.res = Ok("unit")) =>
             LET pid == active_server.val.pid
                 fx  == last'.fx
             IN  /\ Events(fx, "signal") = SignalsTo(fx, pid)
                 /\ Cardinality(SignalsTo(fx, pid)) = 1
                 /\ \A i \in SignalsTo(fx, pid) : fx[i].signal = "Term"
                 /\ Events(fx, "spawn") = {}
                 /\ procs'[pid] = "none"
                 /\ pidfile' = NoFile
                 /\ active_server' = None
       /\ (Handles("Status") /\ last.req = Ok(Disconnect) /\ last.res = Ok("unit")) =>
             last'.fx = <<[op |-> "respond",
                           bytes |-> join(<<t_status, t_disconnected>>)]>>]_vars

\* a Disconnect that killed the tracked process and deleted its pid record
C14_Witness ==
    /\ last.req = Ok(Disconnect)
    /\ last.res = Ok("unit")
    /\ Len(last.fx) = 2
    /\ last.fx[1].op = "signal"
    /\ last.fx[2].op = "delete_pidfile"
    /\ active_server = None
    /\ pidfile = NoFile

\* C15: when a Disconnect cannot signal the tracked process (it is gone, or
\* the signal is refused) the handler returns the error and ActiveConnection,
\* the pid record and the killswitch flag are as before.
C15_DisconnectFailureKeepsState ==
    [][(Handles("Disconnect") /\ active_server # None
          /\ Events(last'.fx, "signal") = {}) =>
          /\ IsErr(last'.res)
          /\ last'.fx = << >>
          /\ active_server' = active_server
          /\ pidfile' = pidfile
          /\ killswitch_enabled' = killswitch_enabled]_vars

\* a refused Disconnect with a connection, a pid record and the killswitch on
C15_Witness ==
    /\ last.req = Ok(Disconnect)
    /\ IsErr(last.res)
    /\ active_server # None
    /\ pidfile # NoFile
    /\ killswitch_enabled

\* the status the client reads from the reply to a Status request
StatusReply(fx) == Response_deserialize(fx[1].bytes)

\* what a Status request must be answered in the current state
StatusOf(active) ==
    IF active = None THEN ResponseStatus(Disconnected)
    ELSE ResponseStatus(Connected(active.val.server.name, active.val.pid,
                                  active.val.protocol))

\* C16: Status is a pure read: its only effect is one reply, which decodes to
\* Connected with the name, pid and protocol of the current ActiveConnection
\* or to Disconnected when there is none; ActiveConnection, the killswitch
\* flag, the processes, the pid record and the firewall are untouched.
C16_StatusPureRead ==
    [][Handles("Status") =>
          /\ last'.res = Ok("unit")
          /\ Len(last'.fx) = 1
          /\ last'.fx[1].op = "respond"
          /\ StatusReply(last'.fx) = Ok(StatusOf(active_server))
          /\ active_server' = active_server
          /\ killswitch_enabled' = killswitch_enabled
          /\ UNCHANGED osVars]_vars

C16_Witness ==
    /\ last.req = Ok(Status)
    /\ active_server # None
    /\ killswitch_enabled
    /\ Len(last.fx) = 1
    /\ StatusReply(last.fx) = Ok(StatusOf(active_server))

\* C17: one response payload is written for a Status request and none for
\* anything else: a Connect, Disconnect or KillswitchToggle, succeeding or
\* failing or still in the pid-file wait, and a message that does not decode,
\* leave the client with zero response bytes.
C17_OneReplyForStatusOnly ==
    IF IsOk(last.req) /\ last.req.val.type = "Status"
    THEN Cardinality(Events(last.fx, "respond")) = 1
    ELSE Events(last.fx, "respond") = {}

\* a Connect that did things on the host and failed, without a reply
C17_Witness ==
    /\ IsOk(last.req)
    /\ last.req.val.type = "Connect"
    /\ IsErr(last.res)
    /\ last.fx # << >>
    /\ Events(last.fx, "respond") = {}

\* the host answers under which the backup or the rule application of
\* linux::enable fails in the current state
BackupOrApplyFails(kenv) ==
    \/ backup_file = NoFile /\ ~kenv.save
    \/ (backup_file # NoFile \/ kenv.save) /\ kenv.nic = "device" /\ kenv.fail_at # 0

\* the host answers under which Iptables::restore fails in the current state
RestoreFails(restored) == backup_file = NoFile \/ ~restored

FirewallFailureKeepsFlag(o) == IsErr(o.res) /\ o.enabled = killswitch_enabled

\* C18: in every state the daemon reaches with an active server, a
\* KillswitchToggle whose backup, rule application or restore fails returns an
\* error and leaves the killswitch flag at the value it had.
C18_FirewallFailureKeepsFlag ==
    active_server # None =>
        /\ \A kenv \in EnableEnvs(active_server.val.protocol) :
              BackupOrApplyFails(kenv) =>
                  FirewallFailureKeepsFlag(
                      handle_killswitch_request(World, TRUE, kenv, TRUE))
        /\ \A restored \in BOOLEAN :
              RestoreFails(restored) =>
                  FirewallFailureKeepsFlag(
                      handle_killswitch_request(World, FALSE, NoKenv, restored))

\* an enable stopped part-way through the rule list, answered with an error,
\* the flag still off
C18_Witness ==
    /\ IsOk(last.req)
    /\ last.req.val.type = "Killswitch"
    /\ last.req.val.enable
    /\ IsErr(last.res)
    /\ \E i \in Events(last.fx, "apply_rules") :
          last.fx[i].applied > 0 /\ last.fx[i].applied < last.fx[i].of
    /\ ~killswitch_enabled

\* C19: once an interrupt or termination signal has been received, whatever
\* the daemon is doing, the process eventually ends through the handler's
\* exit(0), also when disabling the killswitch or stopping the tunnel fails.
C19_SignalShutdownExitsZero == (handler.at # "waiting") ~> (pc = "exited")

\* C20: when the signal arrives the handler runs killswitch::disable exactly
\* when the killswitch flag is on: with the flag on the firewall is what
\* disable leaves, with the flag off the handler runs no firewall command and
\* iptables keeps its rules.
C20_DisableIffEnabled ==
    [][(handler.at = "waiting" /\ handler'.at # "waiting") =>
          IF killswitch_enabled
          THEN \E restored \in BOOLEAN :
                  LET d == disable(World, restored)
                  IN  handler'.fx = d.w.fx /\ iptables' = d.w.iptables
          ELSE handler'.fx = << >> /\ iptables' = iptables]_vars

\* C21: in the teardown a signal starts, a termination that fails is
\* escalated to a forced kill and the whole attempt is made again until one
\* succeeds or three have been made, never more; then the process exits.
C21_TeardownRetriedUpToThree ==
    handler.at = "done" =>
        /\ handler.tries <= StopAttempts
        /\ IsOk(handler.res) \/ handler.tries = StopAttempts
        /\ pc = "exited"

\* C22: Connect, Disconnect and KillswitchToggle exclude the signal handler
\* for their whole duration, the pid-file wait included: the handler is never
\* between its read of the shared state and its exit while a Connect is in
\* flight (waiting for the pid file, or about to store the new connection).
C22_TeardownNeverMidRequest ==
    ~(handler.at = "cleanup" /\ pc \in {"pidwait", "blocked"})

----------------------------------------------------------------------------
(* Further claims about the wire protocol *)

\* C23: a request message whose command is `status` or `disconnect` followed
\* by one or more further ':'-separated fields decodes to an error, not to a
\* Status or Disconnect request.
C23_NoArgumentCommandsStrict ==
    (RequestInput /\ decoded # NoResult) =>
        LET parts == split(wire)
        IN  (parts[1] \in {t_status, t_disconnect} /\ Len(parts) > 1)
                => IsErr(decoded)

\* C24: encoding inverts decoding: every message Request::deserialize
\* accepts is given back, byte for byte, by Request::serialize of the request
\* it decoded to.
C24_EncodeInvertsDecode ==
    (RequestInput /\ IsOk(decoded)) => Request_serialize(decoded.val) = wire

----------------------------------------------------------------------------
(* Further claims about the daemon *)

\* C25: only enabling needs a connection: a KillswitchToggle(false) handled
\* with no ActiveConnection is not refused for the lack of one; it runs the
\* firewall disable and, when that succeeds, the killswitch flag is off.
C25_DisableNeedsNoConnection ==
    (/\ IsOk(last.req)
     /\ last.req.val.type = "Killswitch"
     /\ ~last.req.val.enable
     /\ active_server = None)
    => /\ last.res # Err("Can't enable killswitch as there is no active vpn connection")
       /\ IsOk(last.res) =>
             ~killswitch_enabled /\ Events(last.fx, "restore") # {}

\* C26: a Connect whose server id is not in the directory is ignored: the
\* handler returns success, signals and launches no process, runs no firewall
\* command, and ActiveConnection and the killswitch flag keep their values,
\* with or without a connection.
C26_UnknownServerIgnored ==
    [][(Handles("Connect") /\ servers_get(last'.req.val.id) = None) =>
          /\ last'.res = Ok("unit")
          /\ last'.fx = << >>
          /\ UNCHANGED <<active_server, killswitch_enabled, pending, osVars>>
          /\ pc' = "accept"]_vars

\* the request arrived while connected with the killswitch on
C26_Witness ==
    /\ IsOk(last.req)
    /\ last.req.val.type = "Connect"
    /\ servers_get(last.req.val.id) = None
    /\ last.res = Ok("unit")
    /\ last.fx = << >>
    /\ active_server # None
    /\ killswitch_enabled

\* the firewall restore comes before every signal sent to the tunnel
RestoreBeforeSignals(fx) ==
    \A i \in Events(fx, "restore"), j \in Events(fx, "signal") : i < j

\* C27: on every shutdown path, the signal handler and the stop path, the
\* killswitch is disabled before the tunnel process is signalled.
C27_DisableBeforeTeardown ==
    /\ RestoreBeforeSignals(handler.fx)
    /\ last.req = Ok(StopCall) => RestoreBeforeSignals(last.fx)

----------------------------------------------------------------------------
(* Claims about the tunnel configuration, checked under SpecConfig *)

\* the entry addresses are pairwise different
DistinctIps(ips) == \A i, j \in 1..Len(ips) : ips[i] = ips[j] => i = j

\* C28: the endpoint list of a configuration is the cross product of the
\* server's entry addresses with the default ports of the chosen protocol:
\* for n different addresses it holds 5n endpoints for UDP and 3n for TCP,
\* and no (address, port) pair twice.
C28_EndpointsCrossProduct ==
    (input.kind = "config" /\ IsOk(decoded) /\ DistinctIps(input.entry_ips)) =>
        LET remotes == decoded.val.remotes
        IN  /\ Len(remotes) = Len(default_ports(input.protocol)) * Len(input.entry_ips)
            /\ \A i, j \in 1..Len(remotes) : remotes[i] = remotes[j] => i = j
            /\ {remotes[i].ip : i \in 1..Len(remotes)}
                  = {input.entry_ips[i] : i \in 1..Len(input.entry_ips)}

----------------------------------------------------------------------------
(* Claims about the killswitch rules, checked under Spec *)

DenyRules == {<<"-P", c, "DROP">> : c \in Chains}

IsAppend(rule) == rule[1] = "-A"

Mentions(rule, word) == \E i \in 1..Len(rule) : rule[i] = word

\* the rule list in the order the claim gives, `lead` rules before the deny
\* rules: deny, loopback, tunnel interface, established/related, one pair per
\* default port, then the custom rules as configured
OrderedRuleList(proto, lead) ==
    LET r == rules_for[proto]
        ports == default_ports(proto)
        gen == lead + 9 + 2 * Len(ports)
    IN  /\ Len(r) = gen + Len(CustomRules)
        /\ {r[lead + i] : i \in 1..3} = DenyRules
        /\ \A i \in {lead + 4, lead + 5} : Mentions(r[i], "lo")
        /\ \A i \in {lead + 6, lead + 7} :
              Mentions(r[i], Device) /\ ~Mentions(r[i], "--state")
        /\ \A i \in {lead + 8, lead + 9} :
              Mentions(r[i], Device) /\ Mentions(r[i], "ESTABLISHED,RELATED")
        /\ \A k \in 1..Len(ports) :
              /\ Mentions(r[lead + 9 + 2 * k - 1], "--dport")
              /\ Mentions(r[lead + 9 + 2 * k], "--sport")
              /\ \A i \in {lead + 9 + 2 * k - 1, lead + 9 + 2 * k} :
                    Mentions(r[i], ports[k]) /\ Mentions(r[i], proto_text(proto))
        /\ SubSeq(r, gen + 1, Len(r)) = CustomRules

\* what iptables holds once the first n rules of the list ran, one after
\* the other: the appended rules among them, in list order
AppliedInOrder(proto, n) ==
    /\ n > 0
    /\ iptables.rules = SelectSeq(SubSeq(rules_for[proto], 1, n), IsAppend)

\* the runs of Iptables::apply_rules in the last request (a toggle, or the
\* re-apply of a Connect that changes protocol) that got past the first rule
RulesRan == {i \in Events(last.fx, "apply_rules") : last.fx[i].applied > 0}

\* C29 as written: the generated list starts with the default-deny rules.
C29_ListStartsWithDeny ==
    \A i \in RulesRan :
        /\ OrderedRuleList(last.fx[i].proto, 0)
        /\ AppliedInOrder(last.fx[i].proto, last.fx[i].applied)

\* C29: the generated list starts with a flush of the existing rules (-F),
\* then the default-deny rules, the loopback allows, the tunnel-interface
\* allows, the established/related allows and one allow pair per default
\* port; the custom rules follow all generated rules, verbatim and in their
\* configured order; the rules are applied in list order up to the first
\* that fails.
C29_RuleListOrder ==
    \A i \in RulesRan :
        /\ Head(rules_for[last.fx[i].proto]) = <<"-F">>
        /\ OrderedRuleList(last.fx[i].proto, 1)
        /\ AppliedInOrder(last.fx[i].proto, last.fx[i].applied)

\* an enable that ran the whole list, custom rules last
C29_Witness ==
    /\ RulesRan # {}
    /\ IsOk(last.res)
    /\ Len(iptables.rules) > Len(CustomRules)
    /\ SubSeq(iptables.rules, Len(iptables.rules) - Len(CustomRules) + 1,
              Len(iptables.rules)) = CustomRules

\* C30: a backup of the ruleset found before the killswitch exists on disk
\* before the first rule of an enable is applied: every run of the rule list
\* comes after the backup was written, in this request or an earlier one,
\* the firewall differs from the ruleset found only while the backup holds
\* that ruleset, and an enable whose backup step fails applies no rule.
C30_BackupPrecedesRules ==
    /\ \A i \in Events(last.fx, "apply_rules") :
          /\ backup_file # NoFile
          /\ \A j \in Events(last.fx, "backup") : j < i
    /\ iptables # UserRuleset => backup_file = File(UserRuleset)
    /\ last.res = Err("unable to dump iptables rules") =>
          /\ Events(last.fx, "apply_rules") = {}
          /\ backup_file = NoFile
          /\ iptables = UserRuleset

\* the first enable: the backup is written, then rules run
C30_Witness ==
    /\ Events(last.fx, "backup") = {1}
    /\ \E i \in Events(last.fx, "apply_rules") : i > 1 /\ last.fx[i].applied > 0
    /\ backup_file = File(UserRuleset)
    /\ iptables # UserRuleset

----------------------------------------------------------------------------
(* Claims about the daemon's state between requests *)

\* C31: whenever the daemon is back in the accept loop, the killswitch flag
\* being on implies that there is an ActiveConnection.
C31_KillswitchImpliesConnection ==
    (pc = "accept" /\ killswitch_enabled) => active_server # None

\* the tunnel process the Connect in its pid-file wait has launched
PendingChild == last.fx[CHOOSE i \in Events(last.fx, "spawn") : TRUE].pid

\* C32: requests are handled one at a time and the pid-file wait has no
\* bound: while a Connect waits for the pid file no other request is taken
\* up, and as long as the tunnel process it launched has not written its pid
\* file the Connect does not complete (the wait ends before that only when
\* the file watcher itself fails).
C32_SerialAndUnboundedWait ==
    [][pc = "pidwait" =>
          /\ last'.req = last.req
          /\ (procs[PendingChild] = "starting" /\ pc' # "pidwait")
                => last'.res = Err("notify")]_vars

\* C35: after a Connect that launched a tunnel process and succeeded,
\* ActiveConnection holds the pid of that process, not a pid read from a pid
\* file an earlier tunnel process left behind.
C35_TrackedPidIsLaunched ==
    (/\ IsOk(last.req)
     /\ last.req.val.type = "Connect"
     /\ last.res = Ok("unit")
     /\ Events(last.fx, "spawn") # {})
    => /\ active_server # None
       /\ active_server.val.pid = PendingChild

C34_NoOrphanAfterSignal ==
    (pc = "exited" /\ handler.at = "done") => Tunnels = {}

\* C36: a Disconnect handled while ActiveConnection names a tunnel process
\* that has already exited succeeds and clears ActiveConnection, and a
\* Connect to another server or protocol handled in such a state does not
\* fail at the old process.
TrackedExited == active_server # None /\ procs[active_server.val.pid] = "none"

C36_ReturnToIdlePossible ==
    [][TrackedExited =>
          /\ Handles("Disconnect") =>
                last'.res = Ok("unit") /\ active_server' = None
          /\ Handles("Connect") => last'.res # Err("No such process")]_vars

\* C37: every successful enable of the killswitch on a ruleset of the host
\* leaves the backup holding that ruleset, the one in force immediately
\* before the enable, and every successful disable puts the ruleset of the
\* backup in force: an enable/disable cycle restores the ruleset it started
\* from, in the first cycle and in every later one.
C37_CycleRestoresPreceding ==
    [][(Handles("Killswitch") /\ last'.res = Ok("unit")) =>
          /\ (last'.req.val.enable /\ iptables \in HostRulesets)
                => backup_file' = File(iptables)
          /\ ~last'.req.val.enable => iptables' = backup_file.content]_vars

----------------------------------------------------------------------------
(* Claims about startup, checked under SpecStart *)

KillswitchAbort == Err("Error trying to enable killswitch, aborting.")

\* C38: with killswitch.enable = true in the configuration, start_service
\* never gets past the killswitch step: it returns the killswitch error with
\* no signal handler installed, no tunnel launched by a default Connect and
\* no socket bound.
C38_StartupAbortsWithKillswitchOn ==
    (input.kind = "startup" /\ input.killswitch_enable) =>
        /\ pc \in {"start", "init", "failed"}
        /\ handler = HandlerAbsent
        /\ active_server = None
        /\ Events(last.fx, "spawn") = {}
        /\ (pc = "failed" /\ input.logicals) => last.res = KillswitchAbort

\* startup has aborted at the killswitch step
C38_Witness ==
    /\ input.kind = "startup"
    /\ input.killswitch_enable
    /\ input.default_server # None
    /\ pc = "failed"
    /\ last.res = KillswitchAbort

----------------------------------------------------------------------------
(* Claims about the firewall and the daemon's state, checked under Spec *)

\* C39: between requests, when the killswitch flag is set and there is an
\* ActiveConnection, the rules in force are rules of the list generated for
\* the protocol of that connection, applied in list order (the whole list,
\* or the part of it a failed run got through).
C39_RulesMatchConnection ==
    (pc = "accept" /\ killswitch_enabled /\ active_server # None) =>
        \E n \in 1..Len(rules_for[active_server.val.protocol]) :
            AppliedInOrder(active_server.val.protocol, n)

\* a rule or policy of the list linux::enable generates is in force
GeneratedInForce ==
    \/ \E c \in Chains : iptables.policy[c] = "DROP"
    \/ \E i \in 1..Len(iptables.rules), p \in Protocols :
          \E j \in 1..Len(rules_for[p]) : iptables.rules[i] = rules_for[p][j]

\* C40: between requests, when the killswitch flag is false, no default-deny
\* policy and no rule of the generated list is in force, also after an enable
\* that failed part of the way through the list.
C40_FlagReflectsFirewall ==
    (pc = "accept" /\ ~killswitch_enabled) => ~GeneratedInForce

====
